---------------------------- MODULE Spec2Model ----------------------------
(***************************************************************************)
(* Model of src/utils/webmFixer.ts: the EBML variable-width integer codec, *)
(* the cue-point builder and the fixWebmDuration scan / rewrite handler,   *)
(* of the useAudioRecorder hook that calls it when a recording stops, and  *)
(* of the App component that drives the hook and generates the notes.      *)
(*                                                                         *)
(* Bytes are integers 0..255, buffers are sequences of bytes addressed     *)
(* from 0 as in the source.  JavaScript's bitwise operators work on 32-bit *)
(* signed integers; the operators below keep that width.  A JavaScript     *)
(* number that may exceed 32 bits (the argument of writeEBMLVarInt) is a   *)
(* pair <<hi, lo>> standing for hi * 2^28 + lo with 0 <= lo < 2^28.        *)
(***************************************************************************)
EXTENDS Integers, Sequences, FiniteSets, TLC

VARIABLES
    blob,            \* bytes of the Blob handed to fixWebmDuration
    duration,        \* the duration argument (milliseconds)
    pc,              \* position of the call: see PcValues
    offset,          \* let offset                     (line 116)
    segmentOffset,   \* let segmentOffset              (line 117)
    infoOffset,      \* let infoOffset                 (line 118)
    timecodeScale,   \* let timecodeScale              (line 119)
    durationOffset,  \* let durationOffset             (line 120)
    cuesOffset,      \* let cuesOffset                 (line 121)
    clusterOffsets,  \* const clusterOffsets           (line 123)
    cluster,         \* the Cluster being searched for its Timecode (lines 151-163)
    visited,         \* history: the elements the scan loop has met, in order
    parts,           \* WebMWriter.parts               (line 7), each with its origin
    writeOffset,     \* let writeOffset                (line 192)
    infoEndOffset,   \* let infoEndOffset              (line 193)
    result,          \* what the returned promise was resolved with
    round,           \* 1: repair of the original blob, 2: repair of the first result
    first,           \* the bytes the first call resolved with, kept for the second
    vin,             \* codec harness: the number given to writeEBMLVarInt
    venc,            \* codec harness: the bytes writeEBMLVarInt returned
    vdec,            \* codec harness: what readEBMLVarInt returned for them
    isRecording,     \* useAudioRecorder: isRecording state
    isPaused,        \* useAudioRecorder: isPaused state
    recordingTime,   \* useAudioRecorder: recordingTimeRef.current (seconds)
    audioBlob,       \* useAudioRecorder: audioBlob state, Null or bytes
    audioChunks,     \* useAudioRecorder: audioChunksRef.current
    mediaRecorder,   \* state of mediaRecorderRef.current, "null" before the first
    timerInterval,   \* whether the interval of timerIntervalRef runs
    streams,         \* whether the tracks of the acquired streams are live
    onstop,          \* position of the recorder.onstop handler
    isTogglingPause, \* useAudioRecorder: isTogglingPauseRef.current
    starting,        \* whether startRecording has acquired streams and goes on
    late,            \* position of the onstop handler of the recorder before
    appState,        \* App: appState
    notes,           \* App: notes, "null" or where they come from
    error,           \* App: error, "null" or what failed
    displayedAudioBlob, \* App: displayedAudioBlob, Null or bytes
    viewingHistoryId,   \* App: viewingHistoryId, 0 for null
    generation,      \* App: position of handleGenerateNotes
    fetching,        \* App: the id handleViewHistoryItem awaits, 0 for none
    loading,         \* App: whether handleShowHistory awaits the database
    stored,          \* the database: the audio blob of each note saved, by id
    stage,           \* two calls: "solo1", "solo2" (each alone), "both"
    turn,            \* two calls: the call whose locals the variables above hold
    other,           \* two calls: the locals of the call not running
    alone,           \* two calls: what each call settled with when run alone
    inputs           \* two calls: the blob given to each call

vars == <<blob, duration, pc, offset, segmentOffset, infoOffset, timecodeScale,
          durationOffset, cuesOffset, clusterOffsets, cluster, visited, parts,
          writeOffset, infoEndOffset, result, round, first, vin, venc, vdec,
          isRecording, isPaused, recordingTime, audioBlob, audioChunks,
          mediaRecorder, timerInterval, streams, onstop, isTogglingPause,
          starting, late, appState, notes, error, displayedAudioBlob,
          viewingHistoryId, generation, fetching, loading, stored,
          stage, turn, other, alone, inputs>>

-----------------------------------------------------------------------------
(* Arithmetic of JavaScript numbers and 32-bit integers                      *)

\* 1 << n
Pow2(n) == 2 ^ n

\* The value of reading outside a typed array or of a missing byte.
Undefined == -1

\* buffer[offset] on a Uint8Array: undefined outside 0..length-1.
At(buffer, i) == IF i >= 0 /\ i < Len(buffer) THEN buffer[i + 1] ELSE Undefined

\* ToInt32 of an operand of a bitwise operator: undefined becomes 0.
ToInt32(x) == IF x = Undefined THEN 0 ELSE x

\* (value << 8) | b on 32-bit signed integers: the top 8 bits of value are
\* shifted out and bit 23 becomes the sign.
Shl8Or(value, b) ==
    LET low24 == value % 16777216
    IN  IF low24 >= 8388608
        THEN (low24 - 16777216) * 256 + ToInt32(b)
        ELSE low24 * 256 + ToInt32(b)

\* A JavaScript number hi * 2^28 + lo.
Num(n) == <<n \div 268435456, n % 268435456>>

\* a <= b on such numbers.
NumLE(a, b) == a[1] < b[1] \/ (a[1] = b[1] /\ a[2] <= b[2])

\* ToInt32 of such a number: its low 32 bits, bit 31 the sign.
NumToInt32(v) ==
    LET h == v[1] % 16
    IN  IF h >= 8 THEN (h - 16) * 268435456 + v[2] ELSE h * 268435456 + v[2]

\* Whether an int32 equals a JavaScript number.
Int32EqNum(i, v) == v[1] >= -8 /\ v[1] < 8 /\ i = v[1] * 268435456 + v[2]

RECURSIVE Concat(_)
Concat(ss) == IF ss = <<>> THEN <<>> ELSE Head(ss) \o Concat(Tail(ss))

-----------------------------------------------------------------------------
(* The variable-width integer codec                                          *)

\* getEBMLByteLength: 0 stands for the thrown "EBML VINT size exceeded".
\* The last literal, 0xFFFFFFFFFFFFFF, is above 2^53 and denotes the double 2^56.
getEBMLByteLength(value) ==
    IF NumLE(value, <<0, 127>>) THEN 1
    ELSE IF NumLE(value, <<0, 16383>>) THEN 2
    ELSE IF NumLE(value, <<0, 2097151>>) THEN 3
    ELSE IF NumLE(value, <<0, 268435455>>) THEN 4
    ELSE IF NumLE(value, <<127, 268435455>>) THEN 5
    ELSE IF NumLE(value, <<16383, 268435455>>) THEN 6
    ELSE IF NumLE(value, <<2097151, 268435455>>) THEN 7
    ELSE IF NumLE(value, <<268435456, 0>>) THEN 8
    ELSE 0

\* The loop of writeEBMLVarInt: n bytes, big-endian, of a 32-bit val; each
\* step stores val & 0xFF and shifts val right by 8 with sign.
RECURSIVE LowBytes(_, _)
LowBytes(val, n) ==
    IF n = 0 THEN <<>> ELSE Append(LowBytes(val \div 256, n - 1), val % 256)

\* byte | (1 << k)
OrBit(byte, k) == IF (byte \div Pow2(k)) % 2 = 1 THEN byte ELSE byte + Pow2(k)

\* writeEBMLVarInt: the bytes, or <<>> when getEBMLByteLength throws.
\* `val & 0xFF` and `val >>= 8` both take ToInt32 of val first.
writeEBMLVarInt(value) ==
    LET byteLength == getEBMLByteLength(value)
        raw == LowBytes(NumToInt32(value), byteLength)
    IN  IF byteLength = 0 THEN <<>>
        ELSE <<OrBit(raw[1], 8 - byteLength)>> \o Tail(raw)

\* The length loop of readEBMLVarInt: 9 when no marker bit is set.
RECURSIVE VintLength(_, _)
VintLength(firstByte, length) ==
    IF length <= 8 /\ (ToInt32(firstByte) \div Pow2(8 - length)) % 2 = 0
    THEN VintLength(firstByte, length + 1)
    ELSE length

\* The value loop of readEBMLVarInt.
RECURSIVE VintValue(_, _, _, _, _)
VintValue(buffer, off, value, i, length) ==
    IF i < length
    THEN VintValue(buffer, off, Shl8Or(value, At(buffer, off + i)), i + 1, length)
    ELSE value

\* readEBMLVarInt: ok = FALSE stands for the thrown "Invalid EBML VINT length".
readEBMLVarInt(buffer, off) ==
    LET firstByte == At(buffer, off)
        length == VintLength(firstByte, 1)
    IN  IF length > 8
        THEN [ok |-> FALSE, value |-> 0, length |-> 0]
        ELSE [ok |-> TRUE,
              value |-> VintValue(buffer, off,
                                  ToInt32(firstByte) % Pow2(8 - length), 1, length),
              length |-> length]


-----------------------------------------------------------------------------
(* Typed-array and DataView primitives used by the handler                   *)

\* ArrayBuffer.prototype.slice(begin, end): negative indices count from the
\* end, both are clamped to the buffer, an empty range gives an empty buffer.
Clamp(len, i) == IF i < 0 THEN (IF len + i < 0 THEN 0 ELSE len + i)
                 ELSE (IF i > len THEN len ELSE i)

Slice(buffer, begin, end) ==
    SubSeq(buffer, Clamp(Len(buffer), begin) + 1, Clamp(Len(buffer), end))

\* new DataView(buffer, byteOffset, byteLength).getUintN(0) for an N-byte read:
\* FALSE when the constructor or the getter throws a RangeError.
DataViewReads(buffer, byteOffset, byteLength, width) ==
    /\ byteOffset >= 0
    /\ byteLength >= 0
    /\ byteOffset + byteLength <= Len(buffer)
    /\ width <= byteLength

\* DataView.getUint32(0) / getUint16(0): big-endian.
GetUint32(buffer, at) ==
    ((buffer[at + 1] * 256 + buffer[at + 2]) * 256 + buffer[at + 3]) * 256
        + buffer[at + 4]

GetUint16(buffer, at) == buffer[at + 1] * 256 + buffer[at + 2]

\* floor(log2 x) for x >= 1.
RECURSIVE Log2(_)
Log2(x) == IF x < 2 THEN 0 ELSE 1 + Log2(x \div 2)

\* DataView.setFloat64(0, x) for an integer 0 <= x < 65536: the eight bytes
\* of the IEEE 754 double (sign 0, 11-bit biased exponent, 52-bit fraction).
Float64Bytes(x) ==
    IF x = 0 THEN <<0, 0, 0, 0, 0, 0, 0, 0>>
    ELSE LET e == Log2(x)
             biased == 1023 + e
             frac16 == (x - Pow2(e)) * Pow2(16 - e)
         IN  <<biased \div 16,
               (biased % 16) * 16 + frac16 \div 4096,
               (frac16 \div 16) % 256,
               (frac16 % 16) * 16,
               0, 0, 0, 0>>

-----------------------------------------------------------------------------
(* createCuePoint                                                            *)

\* createCuePoint with its two arguments taken in the other order: the time
\* field holds the offset and the position field the time.
CuePointPayloadSwapped(time, clusterOffset) ==
    Concat(<< <<179>>, writeEBMLVarInt(Num(8)), Float64Bytes(NumToInt32(clusterOffset)),
              <<183>>, writeEBMLVarInt(Num(1 + 1 + getEBMLByteLength(Num(time)))),
              <<247>>, writeEBMLVarInt(Num(1)), <<1>>,
              <<241>>, writeEBMLVarInt(Num(getEBMLByteLength(Num(time)))),
              writeEBMLVarInt(Num(time)) >>)

\* The payload list of createCuePoint, before the CuePoint header.
CuePointPayload(time, clusterOffset) ==
    Concat(<< <<179>>, writeEBMLVarInt(Num(8)), Float64Bytes(time),
              <<183>>, writeEBMLVarInt(Num(1 + 1 + getEBMLByteLength(clusterOffset))),
              <<247>>, writeEBMLVarInt(Num(1)), <<1>>,
              <<241>>, writeEBMLVarInt(Num(getEBMLByteLength(clusterOffset))),
              writeEBMLVarInt(clusterOffset) >>)

\* createCuePoint: finalBuffer has room for a one-byte size; the payload is
\* copied from index 2.  <<>> when getEBMLByteLength throws.
createCuePoint(time, clusterOffset) ==
    IF getEBMLByteLength(clusterOffset) = 0 THEN <<>>
    ELSE LET payload == CuePointPayload(time, clusterOffset)
             cuePointSize == writeEBMLVarInt(Num(Len(payload)))
         IN  <<187, cuePointSize[1]>> \o payload

-----------------------------------------------------------------------------
(* Element tags tested by the scan and the rewrite                           *)

IdSegment == 408125543          \* 0x18538067
IdInfo == 357149030             \* 0x1549A966
IdTimecodeScale == 2807729      \* 0x2AD7B1
IdDuration == 17545             \* 0x4489
IdCluster == 524531317          \* 0x1F43B675
IdTimecode == 231               \* 0xE7
IdCues == 475249515             \* 0x1C53BB6B

\* The bytes the rewrite emits for the tags it writes.
DurationIdBytes == <<68, 137>>
CuesIdBytes == <<28, 83, 187, 107>>

-----------------------------------------------------------------------------
(* Input buffers                                                             *)

MaxFree == 2        \* elements of a freely composed buffer
MaxBody == 3        \* elements following Segment and Info in a composed file

\* Headers whose tag readEBMLVarInt decodes to the constant the scan tests
\* (the tag value carried in a vint one byte longer than the tag itself).
SegmentHdr == <<8, 24, 83, 128, 103, 128>>            \* size 0
InfoHdr1 == <<8, 21, 73, 169, 102, 128>>              \* size 0 in one byte
InfoHdr2 == <<8, 21, 73, 169, 102, 64, 0>>            \* size 0 in two bytes
TimecodeScaleElt == <<16, 42, 215, 177, 132, 0, 15, 66, 64>>     \* 1000000
DurationElt == <<32, 68, 137, 136, 0, 0, 0, 0, 0, 0, 0, 0>>      \* 0.0
CuesElt == <<8, 28, 83, 187, 107, 130, 193, 194>>
\* A Cluster holding a Timecode of two bytes and one byte of media.
ClusterElt(t) ==
    <<8, 31, 67, 182, 117, 134, 64, 231, 130, t \div 256, t % 256, 170>>
\* A Cluster holding one empty block and no Timecode.
ClusterNoTimecode == <<8, 31, 67, 182, 117, 130, 163, 128>>
\* The last Cluster of a live capture: its size byte 0xFF runs past the end.
ClusterLive(t) ==
    <<8, 31, 67, 182, 117, 255, 64, 231, 130, t \div 256, t % 256, 170>>
\* Headers carrying the format's own tag bytes.
SegmentHdrCanon == <<24, 83, 128, 103, 128>>
InfoHdrCanon == <<21, 73, 169, 102, 128>>
\* An Info element of size 12 whose content is a Duration element.
InfoWithDuration == <<8, 21, 73, 169, 102, 64, 12>> \o DurationElt
\* Elements the engine does not know, of 1 and of 128 content bytes, and a
\* byte that starts no vint.
VoidElt == <<236, 129, 85>>
PadElt == <<236, 64, 128>> \o [i \in 1..128 |-> 85]
ZeroByte == <<0>>

FreeBlocks == {SegmentHdr, InfoHdr2, TimecodeScaleElt, ClusterLive(2500),
               SegmentHdrCanon, InfoHdrCanon, VoidElt, ZeroByte}

BodyBlocks == {TimecodeScaleElt, DurationElt, ClusterElt(1000),
               ClusterNoTimecode, CuesElt, PadElt, SegmentHdr}

SeqsUpTo(S, n) == UNION {[1..k -> S] : k \in 0..n}

\* Files made of a Segment header, an Info header and up to n further
\* elements, ending or not with the live Cluster.
ComposedFiles(infos, n) ==
    {SegmentHdr \o i \o Concat(b) \o t :
        i \in infos, b \in SeqsUpTo(BodyBlocks, n), t \in {<<>>, ClusterLive(2500)}}

Inputs ==
    {Concat(f) : f \in SeqsUpTo(FreeBlocks, MaxFree)}
    \cup ComposedFiles({InfoHdr2, InfoWithDuration}, MaxBody)
    \cup ComposedFiles({InfoHdr1}, MaxFree)

\* recordingTimeRef.current * 1000 after three seconds of recording.
Durations == {3000}

-----------------------------------------------------------------------------
(* fixWebmDuration                                                           *)

NoResult == [kind |-> "none", bytes |-> <<>>]
NoCluster == [contentOffset |-> 0, size |-> 0, internalOffset |-> 0]
NoDecode == [ok |-> FALSE, value |-> 0, length |-> 0]

scanVars == <<offset, segmentOffset, infoOffset, timecodeScale, durationOffset,
              cuesOffset, clusterOffsets, cluster, visited>>
writeVars == <<parts, writeOffset, infoEndOffset>>
callVars == <<blob, duration, round, first>>
codecVars == <<vin, venc, vdec>>
hookVars == <<isRecording, isPaused, recordingTime, audioBlob, audioChunks,
              mediaRecorder, timerInterval, streams, onstop, isTogglingPause,
              starting, late>>
concVars == <<stage, turn, other, alone, inputs>>
appVars == <<appState, notes, error, displayedAudioBlob, viewingHistoryId,
             generation, fetching, loading, stored>>
envVars == <<hookVars, concVars, appVars>>

\* A blob state that holds no blob.
Null == <<-1>>

\* The hook as useAudioRecorder creates it (lines 5-21 of the hook).
HookInit ==
    /\ isRecording = FALSE
    /\ isPaused = FALSE
    /\ recordingTime = 0
    /\ audioBlob = Null
    /\ audioChunks = <<>>
    /\ mediaRecorder = "null"
    /\ timerInterval = FALSE
    /\ streams = "null"
    /\ onstop = "none"
    /\ isTogglingPause = FALSE
    /\ starting = FALSE
    /\ late = "none"

\* No call of handleGenerateNotes is in flight.
NoGeneration == [at |-> "none", blob |-> Null]

\* The App component as it is mounted (lines 37-46 of the component), with
\* an empty database.
AppInit ==
    /\ appState = "IDLE"
    /\ notes = "null"
    /\ error = "null"
    /\ displayedAudioBlob = Null
    /\ viewingHistoryId = 0
    /\ generation = NoGeneration
    /\ fetching = 0
    /\ loading = FALSE
    /\ stored = <<>>

\* A single call: no second call exists.
ConcInit ==
    /\ stage = "single"
    /\ turn = 1
    /\ other = <<>>
    /\ alone = <<>>
    /\ inputs = <<>>

\* The locals of reader.onload before the scan starts (lines 116-123).
ScanLocalsInit ==
    /\ offset' = 0
    /\ segmentOffset' = -1
    /\ infoOffset' = -1
    /\ timecodeScale' = -1
    /\ durationOffset' = -1
    /\ cuesOffset' = -1
    /\ clusterOffsets' = <<>>
    /\ cluster' = NoCluster
    /\ visited' = <<>>

\* WebMWriter.write of buffer.slice(begin, end), and of bytes made by the
\* rewrite; `kind` and the copied range record where the part comes from.
Copied(buffer, begin, end) ==
    [kind |-> "copy", from |-> Clamp(Len(buffer), begin),
     to |-> Clamp(Len(buffer), end), bytes |-> Slice(buffer, begin, end)]

Fresh(kind, bytes) == [kind |-> kind, from |-> 0, to |-> 0, bytes |-> bytes]

\* WebMWriter.getBlob: the parts, concatenated.
getBlob(ps) == Concat([i \in 1..Len(ps) |-> ps[i].bytes])

Init ==
    /\ blob \in Inputs
    /\ duration = 0
    /\ pc = "idle"
    /\ offset = 0
    /\ segmentOffset = -1
    /\ infoOffset = -1
    /\ timecodeScale = -1
    /\ durationOffset = -1
    /\ cuesOffset = -1
    /\ clusterOffsets = <<>>
    /\ cluster = NoCluster
    /\ visited = <<>>
    /\ parts = <<>>
    /\ writeOffset = 0
    /\ infoEndOffset = -1
    /\ result = NoResult
    /\ round = 1
    /\ first = <<>>
    /\ vin = <<0, 0>>
    /\ venc = <<>>
    /\ vdec = NoDecode
    /\ HookInit
    /\ AppInit
    /\ ConcInit

\* An exception handler that resolves the promise with what was written.
ThrowDeliversParts ==
    /\ pc' = "threw"
    /\ result' = [kind |-> "new", bytes |-> getBlob(parts)]
    /\ UNCHANGED <<scanVars, writeVars, callVars, codecVars, envVars>>

\* An exception leaves reader.onload: nothing catches it, resolve is never
\* called and the promise stays pending.
Throw ==
    /\ pc' = "threw"
    /\ UNCHANGED <<scanVars, writeVars, callVars, result, codecVars, envVars>>

\* fixWebmDuration(blob, duration): the promise is created and the read of
\* the blob is started (lines 105-107, 241).
Call(d) ==
    /\ pc = "idle"
    /\ duration' = d
    /\ pc' = "reading"
    /\ UNCHANGED <<blob, round, first, scanVars, writeVars, result, codecVars, envVars>>

\* reader.onload up to the scan loop (lines 108-123).
OnLoad ==
    /\ pc = "reading"
    /\ ScanLocalsInit
    /\ parts' = <<>>
    /\ writeOffset' = 0
    /\ infoEndOffset' = -1
    /\ pc' = "scan"
    /\ UNCHANGED <<callVars, result, codecVars, envVars>>

\* One iteration of the scan loop (lines 126-169); for a Cluster the
\* iteration continues in ClusterStep.
ScanStep ==
    /\ pc = "scan"
    /\ offset < Len(blob)
    /\ LET idInfo == readEBMLVarInt(blob, offset)
           sizeInfo == readEBMLVarInt(blob, offset + idInfo.length)
           id == idInfo.value
           size == sizeInfo.value
           contentOffset == offset + idInfo.length + sizeInfo.length
           met == [id |-> id, header |-> offset, contentOffset |-> contentOffset,
                   size |-> size, time |-> -1]
       IN  IF ~idInfo.ok \/ ~sizeInfo.ok THEN Throw
           ELSE IF id = IdTimecodeScale /\ infoOffset # -1
                   /\ ~DataViewReads(blob, contentOffset, size, 4) THEN Throw
           ELSE IF id = IdCluster
           THEN /\ cluster' = [contentOffset |-> contentOffset, size |-> size,
                               internalOffset |-> contentOffset]
                /\ visited' = Append(visited, met)
                /\ pc' = "cluster"
                /\ UNCHANGED <<offset, segmentOffset, infoOffset, timecodeScale,
                               durationOffset, cuesOffset, clusterOffsets,
                               writeVars, callVars, result, codecVars, envVars>>
           ELSE /\ segmentOffset' = IF id = IdSegment THEN contentOffset
                                    ELSE segmentOffset
                /\ infoOffset' = IF id = IdInfo THEN contentOffset ELSE infoOffset
                /\ timecodeScale' = IF id = IdTimecodeScale /\ infoOffset # -1
                                    THEN GetUint32(blob, contentOffset)
                                    ELSE timecodeScale
                /\ durationOffset' = IF id = IdDuration /\ infoOffset # -1
                                     THEN contentOffset ELSE durationOffset
                /\ cuesOffset' = IF id = IdCues
                                 THEN contentOffset - sizeInfo.length - idInfo.length
                                 ELSE cuesOffset
                /\ offset' = contentOffset + size
                /\ visited' = Append(visited, met)
                /\ pc' = "scan"
                /\ UNCHANGED <<clusterOffsets, cluster, writeVars, callVars,
                               result, codecVars, envVars>>

\* One iteration of the search for the Cluster's Timecode (lines 152-163),
\* or the end of that search and of the scan iteration (line 168).
ClusterStep ==
    /\ pc = "cluster"
    /\ LET clusterInternalOffset == cluster.internalOffset
           clusterIdInfo == readEBMLVarInt(blob, clusterInternalOffset)
           clusterSizeInfo ==
               readEBMLVarInt(blob, clusterInternalOffset + clusterIdInfo.length)
           at == clusterInternalOffset + clusterIdInfo.length
                     + clusterSizeInfo.length
           leave == /\ offset' = cluster.contentOffset + cluster.size
                    /\ cluster' = NoCluster
                    /\ pc' = "scan"
       IN  IF clusterInternalOffset < cluster.contentOffset + cluster.size
           THEN IF ~clusterIdInfo.ok \/ ~clusterSizeInfo.ok THEN Throw
                ELSE IF clusterIdInfo.value = IdTimecode
                THEN IF ~DataViewReads(blob, at, clusterSizeInfo.value, 2)
                     THEN Throw
                     ELSE /\ clusterOffsets' = Append(clusterOffsets,
                                 [time |-> GetUint16(blob, at),
                                  offset |-> cluster.contentOffset - segmentOffset])
                          /\ visited' = [visited EXCEPT
                                 ![Len(visited)].time = GetUint16(blob, at)]
                          /\ leave
                          /\ UNCHANGED <<segmentOffset, infoOffset, timecodeScale,
                                         durationOffset, cuesOffset, writeVars,
                                         callVars, result, codecVars, envVars>>
                ELSE /\ cluster' = [cluster EXCEPT
                            !.internalOffset = at + clusterSizeInfo.value]
                     /\ UNCHANGED <<pc, offset, segmentOffset, infoOffset,
                                    timecodeScale, durationOffset, cuesOffset,
                                    clusterOffsets, visited, writeVars, callVars,
                                    result, codecVars, envVars>>
           ELSE /\ leave
                /\ UNCHANGED <<segmentOffset, infoOffset, timecodeScale,
                               durationOffset, cuesOffset, clusterOffsets, visited,
                               writeVars, callVars, result, codecVars, envVars>>

\* The Duration element written when the scan found none (lines 183-189).
NewDurationElement(d) ==
    <<Fresh("insert", DurationIdBytes), Fresh("insert", writeEBMLVarInt(Num(8))),
      Fresh("insert", Float64Bytes(d))>>

\* The offset at which line 197 reads the size of the Info element.
InfoSizeAt(buffer, infoOff) ==
    infoOff - readEBMLVarInt(buffer, infoOff - 2).length
            - readEBMLVarInt(buffer, infoOff - 2).length

\* The end of the scan: the input is returned as it is (lines 171-174) or the
\* rewrite starts (lines 176-198).
ScanEnd ==
    /\ pc = "scan"
    /\ offset >= Len(blob)
    /\ IF segmentOffset = -1 \/ infoOffset = -1 \/ timecodeScale = -1
       THEN /\ result' = [kind |-> "same", bytes |-> blob]
            /\ pc' = "done"
            /\ UNCHANGED <<scanVars, writeVars, callVars, codecVars, envVars>>
       ELSE LET written == <<Copied(blob, 0, infoOffset)>>
                             \o (IF durationOffset = -1
                                 THEN NewDurationElement(duration) ELSE <<>>)
                sizeInfo == readEBMLVarInt(blob, InfoSizeAt(blob, infoOffset))
            IN  /\ parts' = written
                /\ offset' = infoOffset
                /\ writeOffset' = infoOffset
                /\ UNCHANGED <<segmentOffset, infoOffset, timecodeScale,
                               durationOffset, cuesOffset, clusterOffsets, cluster,
                               visited, callVars, result, codecVars, envVars>>
                /\ IF ~readEBMLVarInt(blob, infoOffset - 2).ok \/ ~sizeInfo.ok
                   THEN /\ pc' = "threw"
                        /\ UNCHANGED infoEndOffset
                   ELSE /\ infoEndOffset' = infoOffset + sizeInfo.value
                        /\ pc' = "patch"

\* One iteration of the loop over the Info element (lines 201-215).
PatchStep ==
    /\ pc = "patch"
    /\ writeOffset < infoEndOffset
    /\ LET idInfo == readEBMLVarInt(blob, writeOffset)
           sizeInfo == readEBMLVarInt(blob, writeOffset + idInfo.length)
           at == writeOffset + idInfo.length + sizeInfo.length
       IN  IF ~idInfo.ok \/ ~sizeInfo.ok THEN Throw
           ELSE /\ IF idInfo.value = IdDuration
                   THEN /\ parts' = parts \o <<Copied(blob, infoOffset, at),
                                               Fresh("patch", Float64Bytes(duration))>>
                        /\ infoOffset' = at + sizeInfo.value
                   ELSE UNCHANGED <<parts, infoOffset>>
                /\ writeOffset' = at + sizeInfo.value
                /\ UNCHANGED <<pc, offset, segmentOffset, timecodeScale,
                               durationOffset, cuesOffset, clusterOffsets, cluster,
                               visited, infoEndOffset, callVars, result, codecVars, envVars>>

\* The forEach with each cue point put before the payload built so far.
RECURSIVE CuesPayloadNewestFirst(_)
CuesPayloadNewestFirst(cs) ==
    IF cs = <<>> THEN <<>>
    ELSE CuesPayloadNewestFirst(Tail(cs))
             \o createCuePoint(Head(cs).time, Num(Head(cs).offset))

\* The forEach of lines 220-227: the cue points, appended in list order.
RECURSIVE CuesPayload(_)
CuesPayload(cs) ==
    IF cs = <<>> THEN <<>>
    ELSE createCuePoint(Head(cs).time, Num(Head(cs).offset)) \o CuesPayload(Tail(cs))

\* The Cues element of lines 229-233, as the three parts written.
NewCuesElement(cs) ==
    <<Fresh("cuesId", CuesIdBytes),
      Fresh("cuesSize", writeEBMLVarInt(Num(Len(CuesPayload(cs))))),
      Fresh("cuesPayload", CuesPayload(cs))>>

\* The cut of lines 217 and 236: the start of the old Cues, or what the byte
\* before the Segment's content decodes to, added to the Segment's content start.
CutPoint(buffer, segOff, cuesOff) ==
    IF cuesOff = -1
    THEN segOff + readEBMLVarInt(buffer, segOff - 1).value
    ELSE cuesOff

\* The rest of the rewrite and the resolution of the promise (lines 217-239).
Finish ==
    /\ pc = "patch"
    /\ writeOffset >= infoEndOffset
    /\ IF cuesOffset = -1 /\ ~readEBMLVarInt(blob, segmentOffset - 1).ok THEN Throw
       ELSE LET cut == CutPoint(blob, segmentOffset, cuesOffset)
                all == parts \o <<Copied(blob, infoOffset, cut)>>
                             \o NewCuesElement(clusterOffsets)
                             \o <<Copied(blob, cut, Len(blob))>>
            IN  /\ parts' = all
                /\ result' = [kind |-> "new", bytes |-> getBlob(all)]
                /\ pc' = "done"
                /\ UNCHANGED <<scanVars, writeOffset, infoEndOffset, callVars,
                               codecVars, envVars>>

\* The caller repairs the blob it received once more, with the same duration.
\* A call that returned its own input would be given the same bytes again.
Again ==
    /\ pc = "done"
    /\ round = 1
    /\ result.kind = "new"
    /\ first' = result.bytes
    /\ blob' = result.bytes
    /\ round' = 2
    /\ result' = NoResult
    /\ pc' = "reading"
    /\ UNCHANGED <<duration, scanVars, writeVars, codecVars, envVars>>

Next ==
    \/ \E d \in Durations : Call(d)
    \/ OnLoad
    \/ ScanStep
    \/ ClusterStep
    \/ ScanEnd
    \/ PatchStep
    \/ Finish
    \/ Again

Spec == Init /\ [][Next]_vars

-----------------------------------------------------------------------------
(* The scan on nested files and on sizes that do not fit 31 bits             *)

MaxVisited == 12    \* iterations of the scan loop that are followed

\* An Info element of size 21 holding a TimecodeScale and a Duration element.
NestedInfo == <<8, 21, 73, 169, 102, 149>> \o TimecodeScaleElt \o DurationElt

\* A Segment whose declared size covers its children: the Info element
\* above and one Cluster.
NestedFile ==
    <<8, 24, 83, 128, 103, 128 + Len(NestedInfo \o ClusterElt(1000))>>
        \o NestedInfo \o ClusterElt(1000)

\* The same children in a Segment of unknown size (eight size bytes, all
\* value bits set), as a live capture writes it.
NestedLive ==
    <<8, 24, 83, 128, 103, 1, 255, 255, 255, 255, 255, 255, 255>>
        \o NestedInfo \o ClusterLive(2500)

\* A capture with the format's own tag bytes: EBML header, Segment and
\* Cluster of unknown size, Info holding a TimecodeScale.
LiveCapture ==
    <<26, 69, 223, 163, 128>>
        \o <<24, 83, 128, 103, 1, 255, 255, 255, 255, 255, 255, 255>>
        \o <<21, 73, 169, 102, 135, 42, 215, 177, 131, 15, 66, 64>>
        \o <<31, 67, 182, 117, 1, 255, 255, 255, 255, 255, 255, 255,
             231, 129, 0, 163, 129, 170>>

\* Unknown elements whose five-byte size field has its top bits set: the
\* decoded 32-bit value is -6, the length of the header, and -7.
VoidBack6 == <<236, 8, 255, 255, 255, 250>>
VoidBack7 == <<236, 8, 255, 255, 255, 249>>
\* A Cluster whose only child has such a size field.
ClusterChildBack6 == <<8, 31, 67, 182, 117, 134>> \o VoidBack6

\* A flat file the rewrite accepts, with a Duration to patch.
FlatFile ==
    SegmentHdr \o InfoHdr2 \o DurationElt \o TimecodeScaleElt
        \o ClusterElt(1000) \o PadElt

\* A file whose Segment declares its size in two bytes (0x40 0x83: the 131
\* bytes of the unknown element it holds), followed by what the rewrite needs.
WideSegmentFile ==
    <<8, 24, 83, 128, 103, 64, 128 + 3>> \o PadElt \o InfoHdr2 \o TimecodeScaleElt
        \o ClusterElt(1000)

\* A Cluster whose Timecode field is one byte wide (value 5), and one whose
\* Timecode field is three bytes wide (value 1000 = 00 03 E8).
ClusterTimecode1 == <<8, 31, 67, 182, 117, 132, 64, 231, 129, 5>>
ClusterTimecode3 == <<8, 31, 67, 182, 117, 134, 64, 231, 131, 0, 3, 232>>

\* Flat files holding such Clusters after a Cluster with a two-byte Timecode.
TimecodeFile(c) ==
    SegmentHdr \o InfoHdr2 \o TimecodeScaleElt \o ClusterElt(1000) \o c

ScanTails == {<<>>, VoidBack6, VoidBack7, ClusterChildBack6, ClusterLive(2500),
              VoidElt}

ScanInputs ==
    {h \o t : h \in {<<>>, NestedFile, NestedLive, LiveCapture, FlatFile, VoidElt,
                      WideSegmentFile, TimecodeFile(ClusterTimecode1),
                      TimecodeFile(ClusterTimecode3)},
              t \in ScanTails}

\* The locals of a call not yet made.
FreshCall ==
    /\ duration = 0
    /\ pc = "idle"
    /\ offset = 0
    /\ segmentOffset = -1
    /\ infoOffset = -1
    /\ timecodeScale = -1
    /\ durationOffset = -1
    /\ cuesOffset = -1
    /\ clusterOffsets = <<>>
    /\ cluster = NoCluster
    /\ visited = <<>>
    /\ parts = <<>>
    /\ writeOffset = 0
    /\ infoEndOffset = -1
    /\ result = NoResult

InitScan ==
    /\ blob \in ScanInputs
    /\ FreshCall
    /\ round = 1
    /\ first = <<>>
    /\ vin = <<0, 0>>
    /\ venc = <<>>
    /\ vdec = NoDecode
    /\ HookInit
    /\ AppInit
    /\ ConcInit

\* A scan that does not end is followed for MaxVisited iterations.
BoundedScanStep ==
    /\ Len(visited) < MaxVisited
    /\ ScanStep

NextScan ==
    \/ \E d \in Durations : Call(d)
    \/ OnLoad
    \/ BoundedScanStep
    \/ ClusterStep
    \/ ScanEnd
    \/ PatchStep
    \/ Finish

SpecScan == InitScan /\ [][NextScan]_vars

-----------------------------------------------------------------------------
(* useAudioRecorder: one recording session after the other                   *)

MaxSeconds == 2     \* ticks of the recording timer that are followed

\* What the MediaRecorder delivers when it is stopped (recorder.start() is
\* called without a timeslice, so all data comes in one event): nothing, a
\* capture in the format's own bytes, a file the rewrite accepts, and files
\* on which the scan or the rewrite raises an exception.
ChunkBlobs ==
    {<<>>, LiveCapture, FlatFile, SegmentHdr \o InfoHdr2 \o TimecodeScaleElt,
     ZeroByte}

fixVars == <<blob, duration, pc, scanVars, writeVars, result, round, first>>

\* The promise was consumed and reader.onload has returned: the blob, the
\* promise and the locals of the call are no longer referenced.
ReleaseCall ==
    /\ blob' = <<>>
    /\ duration' = 0
    /\ pc' = "idle"
    /\ result' = NoResult
    /\ ScanLocalsInit
    /\ parts' = <<>>
    /\ writeOffset' = 0
    /\ infoEndOffset' = -1

\* stopAllStreams and the statements of onstop before it (lines 145-150).
StopCleanup ==
    /\ isRecording' = FALSE
    /\ isPaused' = FALSE
    /\ timerInterval' = FALSE
    /\ streams' = "null"

\* The positions of an onstop handler whose recorder was stopped and that
\* has not returned.
InFlight == {"data", "queued", "await"}

\* startRecording up to the streams it was granted (lines 43-73).  It is
\* followed for two recorders at a time: the one it is about to create and
\* one stopped before whose onstop handler has not returned.
startRecording ==
    /\ ~isRecording
    /\ ~starting
    /\ onstop \notin InFlight \/ late \notin InFlight
    /\ starting' = TRUE
    /\ streams' = "live"
    /\ UNCHANGED <<isRecording, isPaused, recordingTime, audioBlob, audioChunks,
                   mediaRecorder, timerInterval, onstop, late, isTogglingPause,
                   fixVars, codecVars, concVars>>

\* The rest of startRecording when an audio track is there and the format
\* is supported (lines 75-165).  mediaRecorderRef now holds the new
\* recorder; the handler of the recorder it held goes on as `late`.
startRecordingGoesOn ==
    /\ starting
    /\ starting' = FALSE
    /\ mediaRecorder' = "recording"
    /\ audioChunks' = <<>>
    /\ isRecording' = TRUE
    /\ isPaused' = FALSE
    /\ recordingTime' = 0
    /\ timerInterval' = TRUE
    /\ onstop' = "none"
    /\ late' = IF onstop \in InFlight THEN onstop ELSE late
    /\ UNCHANGED <<audioBlob, streams, isTogglingPause, fixVars, codecVars,
                   concVars>>

\* The rest of startRecording when it throws: the streams acquired are
\* stopped (lines 79-85, 124-126, 167-177).
startRecordingThrows ==
    /\ starting
    /\ starting' = FALSE
    /\ streams' = "null"
    /\ UNCHANGED <<isRecording, isPaused, recordingTime, audioBlob, audioChunks,
                   mediaRecorder, timerInterval, onstop, late, isTogglingPause,
                   fixVars, codecVars, concVars>>

\* togglePause (lines 181-211).
togglePause ==
    /\ isRecording
    /\ mediaRecorder # "null"
    /\ ~isTogglingPause
    /\ isTogglingPause' = TRUE
    /\ IF mediaRecorder = "paused"
       THEN /\ mediaRecorder' = "recording"
            /\ isPaused' = FALSE
            /\ timerInterval' = TRUE
       ELSE IF mediaRecorder = "recording"
       THEN /\ mediaRecorder' = "paused"
            /\ isPaused' = TRUE
            /\ timerInterval' = FALSE
       ELSE UNCHANGED <<mediaRecorder, isPaused, timerInterval>>
    /\ UNCHANGED <<isRecording, recordingTime, audioBlob, audioChunks, streams,
                   onstop, late, starting, fixVars, codecVars, concVars>>

\* stopRecording (lines 37-41): the recorder becomes inactive and will fire
\* dataavailable, then stop.
stopRecording ==
    /\ mediaRecorder \in {"recording", "paused"}
    /\ mediaRecorder' = "inactive"
    /\ onstop' = "data"
    /\ UNCHANGED <<isRecording, isPaused, recordingTime, audioBlob, audioChunks,
                   timerInterval, streams, late, isTogglingPause,
                   starting, fixVars, codecVars, concVars>>

\* resetRecorder (lines 213-228).
resetRecorder ==
    /\ isRecording' = FALSE
    /\ isPaused' = FALSE
    /\ recordingTime' = 0
    /\ audioBlob' = Null
    /\ audioChunks' = <<>>
    /\ timerInterval' = FALSE
    /\ IF mediaRecorder \in {"recording", "paused"}
       THEN /\ mediaRecorder' = "inactive"
            /\ onstop' = "data"
            /\ UNCHANGED streams
       ELSE /\ streams' = "null"
            /\ UNCHANGED <<mediaRecorder, onstop>>
    /\ UNCHANGED <<late, isTogglingPause, starting, fixVars, codecVars, concVars>>

\* The functions of the hook called with the component left as it is.
\* AcquireStreams starts a session when no onstop handler of an earlier one
\* is in flight, AcquireStreamsAnew whenever startRecording does.
AcquireStreams == onstop \notin InFlight /\ startRecording /\ UNCHANGED appVars
AcquireStreamsAnew == startRecording /\ UNCHANGED appVars
StartRecording == startRecordingGoesOn /\ UNCHANGED appVars
StartFails == startRecordingThrows /\ UNCHANGED appVars
TogglePause == togglePause /\ UNCHANGED appVars
StopRecording == stopRecording /\ UNCHANGED appVars
ResetRecorder == resetRecorder /\ UNCHANGED appVars

\* The callback of the one-second interval (lines 158-164).
Tick ==
    /\ timerInterval
    /\ recordingTime < MaxSeconds
    /\ recordingTime' = recordingTime + 1
    /\ UNCHANGED <<isRecording, isPaused, audioBlob, audioChunks, mediaRecorder,
                   timerInterval, streams, onstop, late, isTogglingPause,
                   starting, fixVars, codecVars, concVars, appVars>>

\* The timeout that ends togglePause (lines 207-209).
PauseTimeout ==
    /\ isTogglingPause
    /\ isTogglingPause' = FALSE
    /\ UNCHANGED <<isRecording, isPaused, recordingTime, audioBlob, audioChunks,
                   mediaRecorder, timerInterval, streams, onstop, late,
                   starting, fixVars, codecVars, concVars, appVars>>

\* recorder.ondataavailable (lines 133-137) for the data of the session.
DataAvailable(data) ==
    /\ onstop = "data"
    /\ audioChunks' = IF Len(data) > 0 THEN Append(audioChunks, data)
                      ELSE audioChunks
    /\ onstop' = "queued"
    /\ UNCHANGED <<isRecording, isPaused, recordingTime, audioBlob, mediaRecorder,
                   timerInterval, streams, late, isTogglingPause,
                   starting, fixVars, codecVars, concVars, appVars>>

\* recorder.onstop up to its await (lines 139-142), or all of it when no
\* chunk was captured (lines 140, 145-150).  One call of fixWebmDuration is
\* followed at a time.
OnStop ==
    /\ onstop = "queued"
    /\ late # "await"
    /\ IF Len(audioChunks) > 0
       THEN /\ blob' = Concat(audioChunks)
            /\ duration' = recordingTime * 1000
            /\ pc' = "reading"
            /\ result' = NoResult
            /\ onstop' = "await"
            /\ UNCHANGED <<isRecording, isPaused, timerInterval, streams>>
       ELSE /\ StopCleanup
            /\ onstop' = "finished"
            /\ UNCHANGED <<blob, duration, pc, result>>
    /\ UNCHANGED <<recordingTime, audioBlob, audioChunks, mediaRecorder, late,
                   isTogglingPause, starting, scanVars, writeVars, round,
                   first, codecVars, concVars, appVars>>

\* recorder.onstop after its await (lines 142-150): it goes on when the
\* promise of fixWebmDuration is resolved.
OnStopResume ==
    /\ onstop = "await"
    /\ pc = "done"
    /\ audioBlob' = result.bytes
    /\ StopCleanup
    /\ onstop' = "finished"
    /\ ReleaseCall
    /\ UNCHANGED <<recordingTime, audioChunks, mediaRecorder, late,
                   isTogglingPause, starting, round, first, codecVars, concVars,
                   appVars>>

\* The same three handlers of the recorder stopped before the one that
\* mediaRecorderRef holds: they are closures over the same refs and setters
\* (lines 133-151), so they work on what the refs hold now.
LateDataAvailable(data) ==
    /\ late = "data"
    /\ audioChunks' = IF Len(data) > 0 THEN Append(audioChunks, data)
                      ELSE audioChunks
    /\ late' = "queued"
    /\ UNCHANGED <<isRecording, isPaused, recordingTime, audioBlob, mediaRecorder,
                   timerInterval, streams, onstop, isTogglingPause,
                   starting, fixVars, codecVars, concVars, appVars>>

LateOnStop ==
    /\ late = "queued"
    /\ onstop # "await"
    /\ IF Len(audioChunks) > 0
       THEN /\ blob' = Concat(audioChunks)
            /\ duration' = recordingTime * 1000
            /\ pc' = "reading"
            /\ result' = NoResult
            /\ late' = "await"
            /\ UNCHANGED <<isRecording, isPaused, timerInterval, streams>>
       ELSE /\ StopCleanup
            /\ late' = "finished"
            /\ UNCHANGED <<blob, duration, pc, result>>
    /\ UNCHANGED <<recordingTime, audioBlob, audioChunks, mediaRecorder, onstop,
                   isTogglingPause, starting, scanVars, writeVars, round,
                   first, codecVars, concVars, appVars>>

LateOnStopResume ==
    /\ late = "await"
    /\ pc = "done"
    /\ audioBlob' = result.bytes
    /\ StopCleanup
    /\ late' = "finished"
    /\ ReleaseCall
    /\ UNCHANGED <<recordingTime, audioChunks, mediaRecorder, onstop,
                   isTogglingPause, starting, round, first, codecVars, concVars,
                   appVars>>

InitRecorder ==
    /\ blob = <<>>
    /\ FreshCall
    /\ round = 1
    /\ first = <<>>
    /\ vin = <<0, 0>>
    /\ venc = <<>>
    /\ vdec = NoDecode
    /\ HookInit
    /\ AppInit
    /\ ConcInit

\* What the event loop runs without the user: the events of the stopped
\* recorder, the load event of the FileReader and the steps of its handler,
\* the continuation of onstop.
HandlerStep ==
    \/ \E data \in ChunkBlobs : DataAvailable(data)
    \/ OnStop
    \/ OnLoad
    \/ ScanStep
    \/ ClusterStep
    \/ ScanEnd
    \/ PatchStep
    \/ Finish
    \/ OnStopResume

NextRecorder ==
    \/ AcquireStreams
    \/ StartRecording
    \/ StartFails
    \/ Tick
    \/ TogglePause
    \/ PauseTimeout
    \/ StopRecording
    \/ ResetRecorder
    \/ HandlerStep

SpecRecorder == InitRecorder /\ [][NextRecorder]_vars

-----------------------------------------------------------------------------
(* useAudioRecorder: a recording started while the handler of the one before *)
(* is in flight                                                              *)

\* What the stopped recorders deliver here: nothing, a file the rewrite
\* accepts, a file on which the scan raises an exception.
SessionBlobs == {<<>>, FlatFile, ZeroByte}

\* The events of the recorder stopped before the present one.
LateStep ==
    \/ \E data \in SessionBlobs : LateDataAvailable(data)
    \/ LateOnStop
    \/ LateOnStopResume

NextSessions ==
    \/ AcquireStreamsAnew
    \/ StartRecording
    \/ StartFails
    \/ Tick
    \/ TogglePause
    \/ PauseTimeout
    \/ StopRecording
    \/ ResetRecorder
    \/ \E data \in SessionBlobs : DataAvailable(data)
    \/ OnStop
    \/ OnLoad
    \/ ScanStep
    \/ ClusterStep
    \/ ScanEnd
    \/ PatchStep
    \/ Finish
    \/ OnStopResume
    \/ LateStep

SpecSessions == InitRecorder /\ [][NextSessions]_vars

-----------------------------------------------------------------------------
(* The App component: the views, the recorder it drives, note generation     *)

MaxNotes == 1       \* notes the database holds at most

\* What the stopped recorder delivers here: nothing, or a capture in the
\* format's own bytes.
AppBlobs == {<<>>, LiveCapture}

\* No handler is running: reader.onload, like every handler, runs from its
\* first statement to its last before the next event is taken.
BetweenTasks == pc \notin {"scan", "cluster", "patch"}

\* handleStartRecording up to its await (lines 121-130), with a source
\* selected; startRecording runs up to its own first await.
HandleStartRecording ==
    /\ BetweenTasks
    /\ appState = "IDLE"
    /\ onstop \notin InFlight
    /\ error' = "null"
    /\ appState' = "REQUESTING_MIC"
    /\ startRecording
    /\ UNCHANGED <<notes, displayedAudioBlob, viewingHistoryId, generation,
                   fetching, loading, stored>>

\* startRecording has resolved and handleStartRecording goes on (line 131).
StartRecordingDone ==
    /\ BetweenTasks
    /\ startRecordingGoesOn
    /\ appState' = "RECORDING"
    /\ UNCHANGED <<notes, error, displayedAudioBlob, viewingHistoryId,
                   generation, fetching, loading, stored>>

\* startRecording has thrown and handleStartRecording catches (lines 132-149).
StartRecordingFailed ==
    /\ BetweenTasks
    /\ startRecordingThrows
    /\ error' = "start"
    /\ appState' = "ERROR"
    /\ UNCHANGED <<notes, displayedAudioBlob, viewingHistoryId, generation,
                   fetching, loading, stored>>

\* handleStopRecording (lines 152-154), offered by the RECORDING view.
HandleStopRecording ==
    /\ BetweenTasks
    /\ appState = "RECORDING"
    /\ stopRecording
    /\ UNCHANGED appVars

\* handlePauseResumeClick (lines 157-159), offered by the RECORDING view.
HandlePauseResumeClick ==
    /\ BetweenTasks
    /\ appState = "RECORDING"
    /\ togglePause
    /\ UNCHANGED appVars

\* The effect of lines 113-118.
RecordingCompleteEffect ==
    /\ BetweenTasks
    /\ ~isRecording
    /\ audioBlob # Null
    /\ appState = "RECORDING"
    /\ appState' = "RECORDING_COMPLETE"
    /\ displayedAudioBlob' = audioBlob
    /\ UNCHANGED <<notes, error, viewingHistoryId, generation, fetching, loading,
                   stored, hookVars, fixVars, codecVars, concVars>>

\* handleGenerateNotes up to its first await (lines 161-165), offered by the
\* RECORDING_COMPLETE view.  One generation is followed at a time.
HandleGenerateNotes ==
    /\ BetweenTasks
    /\ appState = "RECORDING_COMPLETE"
    /\ displayedAudioBlob # Null
    /\ generation.at = "none"
    /\ appState' = "PROCESSING"
    /\ generation' = [at |-> "encoding", blob |-> displayedAudioBlob]
    /\ UNCHANGED <<notes, error, displayedAudioBlob, viewingHistoryId, fetching,
                   loading, stored, hookVars, fixVars, codecVars, concVars>>

\* blobToBase64 has resolved: generateNotesFromAudio is called and sends its
\* request (lines 165-166, 70-86).
Encoded ==
    /\ BetweenTasks
    /\ generation.at = "encoding"
    /\ generation' = [generation EXCEPT !.at = "generating"]
    /\ UNCHANGED <<appState, notes, error, displayedAudioBlob, viewingHistoryId,
                   fetching, loading, stored, hookVars, fixVars, codecVars,
                   concVars>>

\* blobToBase64 has rejected (lines 167-171).
EncodingFailed ==
    /\ BetweenTasks
    /\ generation.at = "encoding"
    /\ error' = "prepare"
    /\ appState' = "ERROR"
    /\ generation' = NoGeneration
    /\ UNCHANGED <<notes, displayedAudioBlob, viewingHistoryId, fetching, loading,
                   stored, hookVars, fixVars, codecVars, concVars>>

\* The response has come and parses: generateNotesFromAudio goes on up to
\* its await of db.addNote (lines 88-100).
Generated ==
    /\ BetweenTasks
    /\ generation.at = "generating"
    /\ notes' = "generated"
    /\ appState' = "SUCCESS"
    /\ error' = "null"
    /\ generation' = [generation EXCEPT !.at = "saving"]
    /\ UNCHANGED <<displayedAudioBlob, viewingHistoryId, fetching, loading,
                   stored, hookVars, fixVars, codecVars, concVars>>

\* The request has failed or its text does not parse, or the database has
\* failed after it (lines 105-109).
GenerationFailed ==
    /\ BetweenTasks
    /\ generation.at \in {"generating", "saving"}
    /\ error' = "generate"
    /\ appState' = "ERROR"
    /\ generation' = NoGeneration
    /\ UNCHANGED <<notes, displayedAudioBlob, viewingHistoryId, fetching, loading,
                   stored, hookVars, fixVars, codecVars, concVars>>

\* db.addNote and db.getAllNotesMeta have resolved (lines 100-103).
Saved ==
    /\ BetweenTasks
    /\ generation.at = "saving"
    /\ Len(stored) < MaxNotes
    /\ stored' = Append(stored, generation.blob)
    /\ generation' = NoGeneration
    /\ UNCHANGED <<appState, notes, error, displayedAudioBlob, viewingHistoryId,
                   fetching, loading, hookVars, fixVars, codecVars, concVars>>

\* handleReset (lines 175-182), offered by the RECORDING_COMPLETE, SUCCESS,
\* ERROR and HISTORY views.
HandleReset ==
    /\ BetweenTasks
    /\ \/ appState \in {"RECORDING_COMPLETE", "ERROR", "HISTORY"}
       \/ appState = "SUCCESS" /\ notes # "null"
    /\ appState' = "IDLE"
    /\ notes' = "null"
    /\ error' = "null"
    /\ viewingHistoryId' = 0
    /\ displayedAudioBlob' = Null
    /\ resetRecorder
    /\ UNCHANGED <<generation, fetching, loading, stored>>

\* handleShowHistory up to its await (lines 184-194), offered by the header
\* in every view but HISTORY.
HandleShowHistory ==
    /\ BetweenTasks
    /\ appState # "HISTORY"
    /\ appState' = "HISTORY"
    /\ notes' = "null"
    /\ error' = "null"
    /\ viewingHistoryId' = 0
    /\ displayedAudioBlob' = Null
    /\ loading' = TRUE
    /\ UNCHANGED <<generation, fetching, stored, hookVars, fixVars, codecVars,
                   concVars>>

\* db.getAllNotesMeta has resolved, or rejected (lines 194-199).
HistoryLoaded(ok) ==
    /\ BetweenTasks
    /\ loading
    /\ loading' = FALSE
    /\ error' = IF ok THEN error ELSE "history"
    /\ UNCHANGED <<appState, notes, displayedAudioBlob, viewingHistoryId,
                   generation, fetching, stored, hookVars, fixVars, codecVars,
                   concVars>>

\* handleViewHistoryItem up to its await (lines 202-203), offered by the
\* HISTORY view for a note of the list.
HandleViewHistoryItem(id) ==
    /\ BetweenTasks
    /\ appState = "HISTORY"
    /\ id \in 1..Len(stored)
    /\ fetching = 0
    /\ fetching' = id
    /\ UNCHANGED <<appState, notes, error, displayedAudioBlob, viewingHistoryId,
                   generation, loading, stored, hookVars, fixVars, codecVars,
                   concVars>>

\* db.getNote has resolved (lines 204-209).
HistoryItemFetched ==
    /\ BetweenTasks
    /\ fetching # 0
    /\ fetching' = 0
    /\ IF fetching \in 1..Len(stored)
       THEN /\ notes' = "stored"
            /\ displayedAudioBlob' = stored[fetching]
            /\ viewingHistoryId' = fetching
            /\ appState' = "SUCCESS"
       ELSE UNCHANGED <<notes, displayedAudioBlob, viewingHistoryId, appState>>
    /\ UNCHANGED <<error, generation, loading, stored, hookVars, fixVars,
                   codecVars, concVars>>

\* handleDeleteHistoryItem, confirmed (lines 212-225), for the note saved last.
HandleDeleteHistoryItem ==
    /\ BetweenTasks
    /\ appState = "HISTORY"
    /\ stored # <<>>
    /\ stored' = SubSeq(stored, 1, Len(stored) - 1)
    /\ UNCHANGED <<appState, notes, error, displayedAudioBlob, viewingHistoryId,
                   generation, fetching, loading, hookVars, fixVars, codecVars,
                   concVars>>

\* What the user does in the views.
UserStep ==
    \/ HandleStartRecording
    \/ HandleStopRecording
    \/ HandlePauseResumeClick
    \/ HandleGenerateNotes
    \/ HandleReset
    \/ HandleShowHistory
    \/ \E id \in 1..MaxNotes : HandleViewHistoryItem(id)
    \/ HandleDeleteHistoryItem

\* What comes back to the component.
CompletionStep ==
    \/ StartRecordingDone
    \/ StartRecordingFailed
    \/ RecordingCompleteEffect
    \/ Encoded
    \/ EncodingFailed
    \/ Generated
    \/ GenerationFailed
    \/ Saved
    \/ \E ok \in BOOLEAN : HistoryLoaded(ok)
    \/ HistoryItemFetched

\* The scan finds none of the tags in a capture of AppBlobs, so the call
\* resolves with the blob it was given (lines 171-174 of webmFixer.ts) and
\* the steps of the rewrite do not occur.
NextApp ==
    \/ UserStep
    \/ CompletionStep
    \/ Tick
    \/ PauseTimeout
    \/ \E data \in AppBlobs : DataAvailable(data)
    \/ OnStop
    \/ OnLoad
    \/ ScanStep
    \/ ScanEnd
    \/ OnStopResume

SpecApp == InitRecorder /\ [][NextApp]_vars

-----------------------------------------------------------------------------
(* Two calls of fixWebmDuration in flight together                           *)

\* The blobs given to the two calls: one the rewrite patches, one it inserts
\* a Duration into, one on which the scan throws, and the first with another
\* timestamp scale.
\* FlatFile with a TimecodeScale of 500000 (00 07 A1 20) in place of 1000000.
TimecodeScaleHalfElt == <<16, 42, 215, 177, 132, 0, 7, 161, 32>>
FlatFileHalfScale ==
    SegmentHdr \o InfoHdr2 \o DurationElt \o TimecodeScaleHalfElt
        \o ClusterElt(1000) \o PadElt

ConcInputs ==
    {FlatFile, SegmentHdr \o InfoHdr2 \o TimecodeScaleElt \o ClusterLive(2500),
     ZeroByte, FlatFileHalfScale}

\* What one call owns with the writer's parts left out, as they would be
\* if WebMWriter kept them in one place for all its instances.
CallStateSharedWriter ==
    [blob |-> blob, duration |-> duration, pc |-> pc, offset |-> offset,
     segmentOffset |-> segmentOffset, infoOffset |-> infoOffset,
     timecodeScale |-> timecodeScale, durationOffset |-> durationOffset,
     cuesOffset |-> cuesOffset, clusterOffsets |-> clusterOffsets,
     cluster |-> cluster, visited |-> visited, writeOffset |-> writeOffset,
     infoEndOffset |-> infoEndOffset, result |-> result]

\* What one call owns: its arguments and promise (lines 105-106), the locals
\* of its reader.onload (lines 115-123, 192-193) and the parts of the
\* WebMWriter it creates (lines 7, 176).  Nothing of it is module state.
CallState ==
    [blob |-> blob, duration |-> duration, pc |-> pc, offset |-> offset,
     segmentOffset |-> segmentOffset, infoOffset |-> infoOffset,
     timecodeScale |-> timecodeScale, durationOffset |-> durationOffset,
     cuesOffset |-> cuesOffset, clusterOffsets |-> clusterOffsets,
     cluster |-> cluster, visited |-> visited, parts |-> parts,
     writeOffset |-> writeOffset, infoEndOffset |-> infoEndOffset,
     result |-> result]

\* A call not yet made on the blob b.
NewCallState(b) ==
    [blob |-> b, duration |-> 0, pc |-> "idle", offset |-> 0,
     segmentOffset |-> -1, infoOffset |-> -1, timecodeScale |-> -1,
     durationOffset |-> -1, cuesOffset |-> -1, clusterOffsets |-> <<>>,
     cluster |-> NoCluster, visited |-> <<>>, parts |-> <<>>,
     writeOffset |-> 0, infoEndOffset |-> -1, result |-> NoResult]

\* Field f of the state st of a call; what is not a call's own is where it is.
Own(st, f, shared) == IF f \in DOMAIN st THEN st[f] ELSE shared

\* The call whose state is st becomes the one the variables hold.
Resume(st) ==
    /\ blob' = Own(st, "blob", blob)
    /\ duration' = Own(st, "duration", duration)
    /\ pc' = Own(st, "pc", pc)
    /\ offset' = Own(st, "offset", offset)
    /\ segmentOffset' = Own(st, "segmentOffset", segmentOffset)
    /\ infoOffset' = Own(st, "infoOffset", infoOffset)
    /\ timecodeScale' = Own(st, "timecodeScale", timecodeScale)
    /\ durationOffset' = Own(st, "durationOffset", durationOffset)
    /\ cuesOffset' = Own(st, "cuesOffset", cuesOffset)
    /\ clusterOffsets' = Own(st, "clusterOffsets", clusterOffsets)
    /\ cluster' = Own(st, "cluster", cluster)
    /\ visited' = Own(st, "visited", visited)
    /\ parts' = Own(st, "parts", parts)
    /\ writeOffset' = Own(st, "writeOffset", writeOffset)
    /\ infoEndOffset' = Own(st, "infoEndOffset", infoEndOffset)
    /\ result' = Own(st, "result", result)

\* How a call ended.
Outcome(st) == [pc |-> st.pc, result |-> st.result]

InitConc ==
    /\ inputs \in ConcInputs \X ConcInputs
    /\ blob = inputs[1]
    /\ FreshCall
    /\ stage = "solo1"
    /\ turn = 1
    /\ other = <<>>
    /\ alone = <<>>
    /\ round = 1
    /\ first = <<>>
    /\ vin = <<0, 0>>
    /\ venc = <<>>
    /\ vdec = NoDecode
    /\ HookInit
    /\ AppInit

\* A call made alone has ended: how it ended is kept, and the second call
\* is made alone, or the two are made together, on a page loaded anew.
NextRun ==
    /\ stage \in {"solo1", "solo2"}
    /\ pc \in {"done", "threw"}
    /\ alone' = Append(alone, Outcome(CallState))
    /\ IF stage = "solo1"
       THEN /\ stage' = "solo2"
            /\ Resume(NewCallState(inputs[2]))
            /\ UNCHANGED other
       ELSE /\ stage' = "both"
            /\ Resume(NewCallState(inputs[1]))
            /\ other' = NewCallState(inputs[2])
    /\ UNCHANGED <<turn, inputs, round, first, codecVars, hookVars, appVars>>

\* The event loop goes from a step of one call to a step of the other: the
\* file reads of the two calls and the steps of their handlers come in any
\* order (lines 107, 241).
Switch ==
    /\ stage = "both"
    /\ other.pc \notin {"done", "threw"}
    /\ other' = CallState
    /\ Resume(other)
    /\ turn' = 3 - turn
    /\ UNCHANGED <<stage, alone, inputs, round, first, codecVars, hookVars,
                   appVars>>

NextConc ==
    \/ \E d \in Durations : Call(d)
    \/ OnLoad
    \/ ScanStep
    \/ ClusterStep
    \/ ScanEnd
    \/ PatchStep
    \/ Finish
    \/ NextRun
    \/ Switch

SpecConc == InitConc /\ [][NextConc]_vars

-----------------------------------------------------------------------------
(* The codec applied to single numbers                                       *)

MaxPow == 57        \* powers of two given to writeEBMLVarInt: 2^0 .. 2^MaxPow
MaxExact == 53      \* 2^k - 1 and 2^k + 1 are given for k up to MaxExact

PowNum(k) == IF k < 28 THEN <<0, Pow2(k)>> ELSE <<Pow2(k - 28), 0>>
PredNum(v) == IF v[2] = 0 THEN <<v[1] - 1, 268435455>> ELSE <<v[1], v[2] - 1>>
SuccNum(v) == IF v[2] = 268435455 THEN <<v[1] + 1, 0>> ELSE <<v[1], v[2] + 1>>

VarIntInputs ==
    {PowNum(k) : k \in 0..MaxPow}
    \cup {PredNum(PowNum(k)) : k \in 0..MaxExact}
    \cup {SuccNum(PowNum(k)) : k \in 0..MaxExact}

InitCodec ==
    /\ vin \in VarIntInputs
    /\ venc = <<>>
    /\ vdec = NoDecode
    /\ pc = "encode"
    /\ blob = <<>>
    /\ duration = 0
    /\ offset = 0
    /\ segmentOffset = -1
    /\ infoOffset = -1
    /\ timecodeScale = -1
    /\ durationOffset = -1
    /\ cuesOffset = -1
    /\ clusterOffsets = <<>>
    /\ cluster = NoCluster
    /\ visited = <<>>
    /\ parts = <<>>
    /\ writeOffset = 0
    /\ infoEndOffset = -1
    /\ result = NoResult
    /\ round = 1
    /\ first = <<>>
    /\ HookInit
    /\ AppInit
    /\ ConcInit

\* writeEBMLVarInt(vin): its bytes, or the exception of getEBMLByteLength.
Encode ==
    /\ pc = "encode"
    /\ IF getEBMLByteLength(vin) = 0
       THEN pc' = "threw" /\ UNCHANGED venc
       ELSE pc' = "decode" /\ venc' = writeEBMLVarInt(vin)
    /\ UNCHANGED <<vin, vdec, scanVars, writeVars, callVars, result, envVars>>

\* readEBMLVarInt(new Uint8Array(venc), 0).
Decode ==
    /\ pc = "decode"
    /\ vdec' = readEBMLVarInt(venc, 0)
    /\ pc' = "decoded"
    /\ UNCHANGED <<vin, venc, scanVars, writeVars, callVars, result, envVars>>

NextCodec == Encode \/ Decode

SpecCodec == InitCodec /\ [][NextCodec]_vars

-----------------------------------------------------------------------------
(* readEBMLVarInt applied to buffers that end early                          *)

MaxDecodeOffset == 2    \* offsets 0 .. MaxDecodeOffset are decoded at

\* Whole encodings, a byte without marker bit, and an eight-byte vint.
WholeVints ==
    {writeEBMLVarInt(v) : v \in {w \in VarIntInputs : getEBMLByteLength(w) # 0}}
    \cup {ZeroByte, <<0, 129>>, <<1, 2, 3, 4, 5, 6, 7, 8>>}

\* Every buffer that is the beginning of one of them, behind up to two
\* bytes of an element tag.
DecodeBuffers ==
    {p \o Slice(b, 0, k) : p \in {<<>>, <<236>>, <<68, 137>>},
                            b \in WholeVints, k \in 0..8}

InitDecode ==
    /\ venc \in DecodeBuffers
    /\ offset \in 0..MaxDecodeOffset
    /\ offset <= Len(venc)
    /\ vdec = NoDecode
    /\ vin = <<0, 0>>
    /\ pc = "decode"
    /\ blob = <<>>
    /\ duration = 0
    /\ segmentOffset = -1
    /\ infoOffset = -1
    /\ timecodeScale = -1
    /\ durationOffset = -1
    /\ cuesOffset = -1
    /\ clusterOffsets = <<>>
    /\ cluster = NoCluster
    /\ visited = <<>>
    /\ parts = <<>>
    /\ writeOffset = 0
    /\ infoEndOffset = -1
    /\ result = NoResult
    /\ round = 1
    /\ first = <<>>
    /\ HookInit
    /\ AppInit
    /\ ConcInit

\* readEBMLVarInt(new Uint8Array(venc), offset).
DecodeAt ==
    /\ pc = "decode"
    /\ vdec' = readEBMLVarInt(venc, offset)
    /\ pc' = "decoded"
    /\ UNCHANGED <<vin, venc, scanVars, writeVars, callVars, result, envVars>>

NextDecode == DecodeAt

SpecDecode == InitDecode /\ [][NextDecode]_vars

-----------------------------------------------------------------------------
(* Properties                                                                *)

\* The call is over: the promise was resolved, or the handler was left by an
\* exception.
Settled == pc \in {"done", "threw"}

\* The promise was resolved with a rewritten blob.
Repaired == pc = "done" /\ result.kind = "new"

\* The elements of a given tag met by the scan, in scan order.
Met(id) == SelectSeq(visited, LAMBDA v : v.id = id)

\* The parts of a given origin, in the order written.
PartsOf(kind) == SelectSeq(parts, LAMBDA q : q.kind = kind)

Inserted == PartsOf("insert") # <<>>
Patched == PartsOf("patch") # <<>>

\* C1: whenever the scan finds no Segment or no Info, the promise resolves
\* with the input unchanged and no error is raised, whatever the bytes are.
C1_GracefulNoOp ==
    (Settled /\ (segmentOffset = -1 \/ infoOffset = -1))
        => (pc = "done" /\ result.kind = "same" /\ result.bytes = blob)

\* C2: the repair is performed whenever Segment and Info were located, also
\* without TimecodeScale, Duration and Cues; the input is returned unchanged
\* only when Segment or Info is absent.
C2_RepairNeedsOnlySegmentAndInfo ==
    pc = "done"
        => (result.kind = "same" <=> (segmentOffset = -1 \/ infoOffset = -1))

\* Byte i (from 0) of the input lies in the payload of the Duration field the
\* scan recorded, or in a Cues element the scan met.
InDurationOrIndex(i) ==
    \/ durationOffset # -1 /\ i >= durationOffset /\ i < durationOffset + 8
    \/ \E k \in 1..Len(visited) :
          /\ visited[k].id = IdCues
          /\ i >= visited[k].header
          /\ i < visited[k].contentOffset + visited[k].size

RECURSIVE InputKeptFrom(_)
InputKeptFrom(i) ==
    IF i >= Len(blob) THEN <<>>
    ELSE (IF InDurationOrIndex(i) THEN <<>> ELSE <<blob[i + 1]>>)
             \o InputKeptFrom(i + 1)

\* C3: the output without the duration bytes and the new index is the input
\* without its duration payload and prior index: same bytes, same order, each
\* exactly once.
C3_BytePreservation ==
    Repaired => getBlob(PartsOf("copy")) = InputKeptFrom(0)

\* C4: repairing the result of a repair with the same duration gives that
\* result again, byte for byte.
C4_Idempotent ==
    (round = 2 /\ Settled) => (pc = "done" /\ result.bytes = first)

\* C5: when the input has a Cues element, none of its bytes is copied to the
\* output, whose only index is the one newly built.
C5_PriorIndexReplaced ==
    (Repaired /\ cuesOffset # -1)
        => /\ Len(PartsOf("cuesId")) = 1
           /\ \A k \in 1..Len(visited) : \A j \in 1..Len(parts) :
                 (visited[k].id = IdCues /\ parts[j].kind = "copy")
                     => \/ parts[j].from >= parts[j].to
                        \/ parts[j].to <= visited[k].header
                        \/ parts[j].from >= visited[k].contentOffset + visited[k].size

\* a < b on JavaScript numbers.
NumLT(a, b) == ~NumLE(b, a)

\* The smallest L in 1..8 with v < 2^(7L).
MinimalLength(v) ==
    CHOOSE L \in 1..8 :
        /\ NumLT(v, PowNum(7 * L))
        /\ \A K \in 1..(L - 1) : ~NumLT(v, PowNum(7 * K))

\* C6: for every v in [0, 2^56 - 1], readEBMLVarInt(writeEBMLVarInt(v), 0)
\* is {value: v, length: L} with L the minimal byte length of v.
C6_VarIntRoundTrip ==
    (pc \in {"decoded", "threw"} /\ NumLT(vin, PowNum(56)))
        => /\ pc = "decoded"
           /\ vdec.ok
           /\ Int32EqNum(vdec.value, vin)
           /\ vdec.length = MinimalLength(vin)

\* The index points of a Cues payload as a reader of the format splits it:
\* tag 0xBB, a one-byte size, that many content bytes.  <<<<>>>> when the
\* bytes are no such sequence.
RECURSIVE CuePointsIn(_)
CuePointsIn(bytes) ==
    IF bytes = <<>> THEN <<>>
    ELSE IF Len(bytes) < 2 \/ bytes[1] # 187 \/ bytes[2] < 128
            \/ Len(bytes) < 2 + (bytes[2] - 128)
    THEN << <<>> >>
    ELSE <<SubSeq(bytes, 3, 2 + (bytes[2] - 128))>>
             \o CuePointsIn(SubSeq(bytes, 3 + (bytes[2] - 128), Len(bytes)))

\* The index points of the Cues element written by the rewrite.
NewCuePoints == CuePointsIn(getBlob(PartsOf("cuesPayload")))

\* The CueTime payload of an index point: tag 0xB3, size 8, eight bytes.
CueTimeOf(cp) ==
    IF Len(cp) >= 10 /\ cp[1] = 179 /\ cp[2] = 136 THEN SubSeq(cp, 3, 10) ELSE <<>>

\* The CueTrack value of an index point: after the time and the header of
\* the track-position block, tag 0xF7, size 1, one byte.
CueTrackOf(cp) ==
    IF Len(cp) >= 15 /\ cp[11] = 183 /\ cp[13] = 247 /\ cp[14] = 129
    THEN cp[15] ELSE -1

\* The bytes of the position field: tag 0xF1, a one-byte size, the rest of
\* the index point.
CuePositionOf(cp) ==
    IF Len(cp) >= 18 /\ cp[16] = 241 /\ cp[17] - 128 = Len(cp) - 17
    THEN SubSeq(cp, 18, Len(cp)) ELSE <<>>

RECURSIVE BigEndian(_)
BigEndian(bytes) ==
    IF bytes = <<>> THEN 0
    ELSE BigEndian(SubSeq(bytes, 1, Len(bytes) - 1)) * 256 + bytes[Len(bytes)]

\* The number a vint of the format holds: its bytes big-endian, without the
\* marker bit 2^(7 * length); -1 when the marker is not where the length puts it.
VintNumber(bytes) ==
    LET n == BigEndian(bytes)
        marker == Pow2(7 * Len(bytes))
    IN  IF bytes # <<>> /\ n >= marker /\ n < 2 * marker THEN n - marker ELSE -1

\* The Clusters met by the scan, and those in which it found a Timecode.
Chunks == Met(IdCluster)
TimedChunks == SelectSeq(visited, LAMBDA v : v.id = IdCluster /\ v.time # -1)

C9_InsertedOnce ==
    Repaired
        => /\ durationOffset = -1
              => /\ Len(parts) >= 4
                 /\ parts[1].kind = "copy"
                 /\ parts[1].from = 0
                 /\ parts[1].to = Met(IdInfo)[Len(Met(IdInfo))].contentOffset
                 /\ getBlob(PartsOf("insert"))
                        = <<68, 137, 136>> \o Float64Bytes(duration)
                 /\ getBlob(SubSeq(parts, 2, 4)) = getBlob(PartsOf("insert"))
                 /\ ~Patched
           /\ ~(Inserted /\ Patched)

\* The size an element header at `header` declares.
DeclaredSize(buffer, header) ==
    readEBMLVarInt(buffer, header + readEBMLVarInt(buffer, header).length).value

\* C10: when a Duration element is inserted, the size the Info header
\* declares in the output is the size it declares in the input plus the
\* number of bytes inserted.
C10_InfoSizeGrows ==
    (Repaired /\ Inserted)
        => LET info == Met(IdInfo)[Len(Met(IdInfo))]
           IN  DeclaredSize(result.bytes, info.header)
                   = info.size + Len(getBlob(PartsOf("insert")))

\* The Info element the rewrite works on: the last one the scan met.
InfoMet == Met(IdInfo)[Len(Met(IdInfo))]

\* The input holds a Duration field in its Info element: the scan recorded
\* one, or the content the Info header declares begins with one.
HoldsDuration ==
    \/ durationOffset # -1
    \/ /\ InfoMet.size > 0
       /\ readEBMLVarInt(blob, InfoMet.contentOffset).value = IdDuration

\* Where the payload of that Duration field starts in the input.
HeldDurationOffset ==
    IF durationOffset # -1 THEN durationOffset
    ELSE InfoMet.contentOffset
             + readEBMLVarInt(blob, InfoMet.contentOffset).length
             + readEBMLVarInt(blob, InfoMet.contentOffset
                   + readEBMLVarInt(blob, InfoMet.contentOffset).length).length

\* The number of bytes of the Cues elements among the elements vs.
RECURSIVE IndexBytes(_)
IndexBytes(vs) ==
    IF vs = <<>> THEN 0
    ELSE (IF Head(vs).id = IdCues
          THEN Head(vs).contentOffset + Head(vs).size - Head(vs).header ELSE 0)
             + IndexBytes(Tail(vs))

\* The bytes of the Cues element the rewrite wrote.
NewIndex ==
    getBlob(PartsOf("cuesId")) \o getBlob(PartsOf("cuesSize"))
        \o getBlob(PartsOf("cuesPayload"))

\* C11: when the Info element already holds a Duration field, the repair
\* writes eight bytes over that field's payload and nothing else in the Info
\* element: no Duration element is inserted, the bytes before the payload
\* are copied up to it, and the length of the output is the length of the
\* input plus the new index minus the prior index.
C11_PatchedInPlace ==
    (Repaired /\ HoldsDuration)
        => /\ ~Inserted
           /\ Len(PartsOf("patch")) = 1
           /\ \A j \in 2..Len(parts) :
                 parts[j].kind = "patch"
                     => /\ parts[j - 1].kind = "copy"
                        /\ parts[j - 1].to = HeldDurationOffset
                        /\ Len(parts[j].bytes) = 8
           /\ Len(result.bytes)
                  = Len(blob) + Len(NewIndex) - IndexBytes(visited)

\* C12: when the input has no Cues element, the output ends with the Cues
\* element the rewrite built: no input byte follows it.
C12_IndexIsLast ==
    (Repaired /\ Met(IdCues) = <<>>)
        => /\ Len(result.bytes) >= Len(NewIndex)
           /\ SubSeq(result.bytes, Len(result.bytes) - Len(NewIndex) + 1,
                     Len(result.bytes)) = NewIndex
           /\ parts[Len(parts)].bytes = <<>>

\* C13: a call that an exception ended has delivered no blob: its promise
\* was not resolved, neither with the input nor with the parts written so far.
C13_NoOutputAfterError ==
    pc = "threw" => result = NoResult

\* An exception raised by the rewrite, after parts were written.
C13_Witness ==
    pc = "threw" /\ parts # <<>>

\* C14: when readEBMLVarInt fails the promise is rejected: it does not stay
\* pending.
C14_FailurePropagates ==
    pc = "threw" => result.kind = "rejected"

\* The bytes of buffer from offset off on begin with the bytes tag.
StartsWith(buffer, off, tag) ==
    /\ off + Len(tag) <= Len(buffer)
    /\ SubSeq(buffer, off + 1, off + Len(tag)) = tag

\* The tags of the format, as the bytes that carry them in a file, each with
\* the constant the scan compares with.
CanonicalTags ==
    {<<IdSegment, <<24, 83, 128, 103>>>>, <<IdInfo, <<21, 73, 169, 102>>>>,
     <<IdTimecodeScale, <<42, 215, 177>>>>, <<IdDuration, DurationIdBytes>>,
     <<IdCluster, <<31, 67, 182, 117>>>>, <<IdTimecode, <<231>>>>,
     <<IdCues, CuesIdBytes>>}

\* C17: an element whose header begins with the canonical bytes of a tag is
\* met by the scan with the tag value the scan tests for.
C17_CanonicalTagsRecognised ==
    \A k \in 1..Len(visited) : \A t \in CanonicalTags :
        StartsWith(blob, visited[k].header, t[2]) => visited[k].id = t[1]

\* C20: the end of the Info element the patch loop uses is the Info
\* element's content start plus its declared size, and the loop reads no
\* element header at or beyond that end.
C20_InfoEndIsDeclaredEnd ==
    pc = "patch"
        => /\ infoEndOffset = InfoMet.contentOffset + InfoMet.size
           /\ writeOffset < infoEndOffset
                  => writeOffset < InfoMet.contentOffset + InfoMet.size

\* The scan loop has ended (line 170 is reached).
Scanned == pc \in {"patch", "done"}

\* C18: in a file whose Info element lies inside the Segment's declared size
\* and holds the TimecodeScale and Duration elements, the scan records the
\* Info content start, the TimecodeScale value and the Duration payload offset.
C18_ScanDescends ==
    (blob = NestedFile /\ Scanned)
        => /\ infoOffset = Len(SegmentHdr) + Len(InfoHdr1)
           /\ timecodeScale = 1000000
           /\ durationOffset
                  = Len(SegmentHdr) + Len(InfoHdr1) + Len(TimecodeScaleElt) + 4

\* The header the next iteration of the scan loop decodes.
NextHeader ==
    LET idInfo == readEBMLVarInt(blob, offset)
        sizeInfo == readEBMLVarInt(blob, offset + idInfo.length)
    IN  [ok |-> idInfo.ok /\ sizeInfo.ok, size |-> sizeInfo.value,
         contentOffset |-> offset + idInfo.length + sizeInfo.length]

\* The header the next iteration of the Timecode search decodes.
NextChild ==
    LET idInfo == readEBMLVarInt(blob, cluster.internalOffset)
        sizeInfo == readEBMLVarInt(blob, cluster.internalOffset + idInfo.length)
    IN  [ok |-> idInfo.ok /\ sizeInfo.ok, id |-> idInfo.value,
         size |-> sizeInfo.value,
         contentOffset |-> cluster.internalOffset + idInfo.length + sizeInfo.length]

\* C19: every iteration of the scan loop and of the Timecode search that
\* decodes a header moves its offset forward: the decoded size is not
\* negative and the offset after the iteration is greater than before.
C19_LoopsAdvance ==
    /\ (pc = "scan" /\ offset < Len(blob) /\ NextHeader.ok)
           => /\ NextHeader.size >= 0
              /\ NextHeader.contentOffset + NextHeader.size > offset
    /\ (pc = "cluster" /\ cluster.internalOffset < cluster.contentOffset + cluster.size
            /\ NextChild.ok /\ NextChild.id # IdTimecode)
           => /\ NextChild.size >= 0
              /\ NextChild.contentOffset + NextChild.size > cluster.internalOffset

\* The repair called by onstop has failed: an exception left reader.onload.
\* No step of the handler is enabled from here on (OnStopResume waits for the
\* promise), so what holds of the hook now holds until the user acts.
RepairFailed == onstop = "await" /\ pc = "threw"

\* C15: a failed repair does not stop the flow started by onstop: the raw
\* blob is published, the recording state is left and the streams are
\* released.
C15_RecordingCompletes ==
    RepairFailed => (audioBlob = blob /\ ~isRecording /\ streams = "null")

SegmentMet == Met(IdSegment)[Len(Met(IdSegment))]

DurationsInInfo ==
    SelectSeq(visited, LAMBDA v : v.id = IdDuration
                                    /\ Met(IdInfo) # <<>>
                                    /\ v.header > Met(IdInfo)[1].header)

\* C22: while the scan runs, the location recorded for the Segment, the
\* Info, the Duration and the Cues element is that of the first such element
\* the scan met: a later element with the same tag does not replace it.
C22_FirstOccurrenceKept ==
    pc \in {"scan", "cluster"}
        => /\ Met(IdSegment) # <<>>
                  => segmentOffset = Met(IdSegment)[1].contentOffset
           /\ Met(IdInfo) # <<>>
                  => infoOffset = Met(IdInfo)[1].contentOffset
           /\ DurationsInInfo # <<>>
                  => durationOffset = DurationsInInfo[1].contentOffset
           /\ Met(IdCues) # <<>>
                  => cuesOffset = Met(IdCues)[1].header

\* C23: every chunk record's offset is the content offset of its Cluster
\* minus the content start of a Segment the scan met, is not negative, and
\* all records of a repair are relative to the same Segment start, the one
\* the rewrite works in.
C23_OffsetsFromOneContainer ==
    Repaired
        => \A i \in 1..Len(clusterOffsets) :
              /\ clusterOffsets[i].offset >= 0
              /\ Met(IdSegment) # <<>>
              /\ clusterOffsets[i].offset
                     = TimedChunks[i].contentOffset - SegmentMet.contentOffset

\* The last two bytes of a field (the one byte of a field one byte wide):
\* they hold the field's big-endian value modulo 2^16.
LowTwoBytes(buffer, at, width) ==
    SubSeq(buffer, IF width >= 2 THEN at + width - 1 ELSE at + 1, at + width)

\* The child the Timecode search is about to decode is a Timecode field of
\* one to eight bytes that lies within the buffer.
TimecodeAhead ==
    /\ cluster # NoCluster
    /\ cluster.internalOffset < cluster.contentOffset + cluster.size
    /\ NextChild.ok
    /\ NextChild.id = IdTimecode
    /\ NextChild.size \in 1..8
    /\ NextChild.contentOffset + NextChild.size <= Len(blob)

\* C24: the step of the Timecode search that decodes a Timecode field of
\* one to eight bytes holding the big-endian value t does not fail, and
\* records t mod 2^16 as the timestamp of the Cluster.
C24_TimestampModulo ==
    [][(pc = "cluster" /\ TimecodeAhead)
           => /\ pc' = "scan"
              /\ Len(clusterOffsets') = Len(clusterOffsets) + 1
              /\ clusterOffsets'[Len(clusterOffsets')].time
                     = BigEndian(LowTwoBytes(blob, NextChild.contentOffset,
                                             NextChild.size))]_vars

\* floor(v / 256) of a JavaScript number.
DivNum256(v) == <<v[1] \div 256, (v[1] % 256) * 1048576 + v[2] \div 256>>

\* The n low bytes of a JavaScript number, big-endian, with no 32-bit step.
RECURSIVE ExactBytes(_, _)
ExactBytes(v, n) ==
    IF n = 0 THEN <<>> ELSE Append(ExactBytes(DivNum256(v), n - 1), v[2] % 256)

\* C25: for every v in [0, 2^56 - 1], writeEBMLVarInt(v) returns L bytes, L
\* the smallest length with v < 2^(7L); its first byte has bit 8 - L set and
\* no higher bit, and the other 7L bits are v, big-endian.
C25_VarIntEncoding ==
    (pc \in {"decode", "decoded", "threw"} /\ NumLT(vin, PowNum(56)))
        => LET L == MinimalLength(vin)
           IN  /\ pc # "threw"
               /\ Len(venc) = L
               /\ venc[1] \div Pow2(8 - L) = 1
               /\ <<venc[1] - Pow2(8 - L)>> \o Tail(venc) = ExactBytes(vin, L)

\* The length the first byte of a vint announces: one plus its leading
\* zero bits; 9 when it has no bit set or is no byte of the buffer.
AnnouncedLength(firstByte) ==
    IF firstByte = Undefined \/ firstByte = 0 THEN 9 ELSE 8 - Log2(firstByte)

\* C26: readEBMLVarInt fails exactly when the first byte has no bit set or
\* fewer bytes remain in the buffer than the first byte announces; when it
\* returns, the length is the announced one and the value is made of the
\* bytes offset .. offset + length - 1 of the buffer, the marker bit removed.
C26_DecodeWithinBuffer ==
    pc = "decoded"
        => LET L == AnnouncedLength(At(venc, offset))
               fails == L = 9 \/ offset + L > Len(venc)
           IN  /\ vdec.ok <=> ~fails
               /\ vdec.ok
                      => /\ vdec.length = L
                         /\ L <= 4 => vdec.value
                                = VintNumber(SubSeq(venc, offset + 1, offset + L))

\* The duration payloads among the parts ps: the eight bytes written over a
\* Duration field, and the eight bytes that end an inserted Duration element.
DurationPayloads(ps) ==
    LET patched == getBlob(SelectSeq(ps, LAMBDA q : q.kind = "patch"))
        inserted == getBlob(SelectSeq(ps, LAMBDA q : q.kind = "insert"))
    IN  patched \o (IF inserted = <<>> THEN <<>>
                    ELSE SubSeq(inserted, Len(inserted) - 7, Len(inserted)))

\* The buffers a and b differ, and only in bytes of the content of a
\* TimecodeScale element among the elements vs met in a.
DifferOnlyInScale(a, b, vs) ==
    /\ Len(a) = Len(b)
    /\ a # b
    /\ \A i \in 1..Len(a) :
          a[i] # b[i]
              => \E k \in 1..Len(vs) :
                    /\ vs[k].id = IdTimecodeScale
                    /\ i > vs[k].contentOffset
                    /\ i <= vs[k].contentOffset + vs[k].size

\* C27: the duration payload depends on the timestamp scale of the input:
\* two repairs with the same duration argument of inputs that differ only in
\* their TimecodeScale value write different duration payloads.
C27_DurationScaled ==
    (/\ stage = "both"
     /\ Repaired
     /\ other.pc = "done"
     /\ other.result.kind = "new"
     /\ duration = other.duration
     /\ DifferOnlyInScale(blob, other.blob, visited))
        => DurationPayloads(parts) # DurationPayloads(other.parts)

\* C28: every size declared in the new index is the number of content bytes
\* written for its element: the Cues header declares the length of the Cues
\* payload, the index points fill that payload, and in each index point the
\* time field declares eight bytes, the track-position block declares what
\* follows its header up to the end of the point, its track field one byte
\* and its position field the bytes that follow.
C28_DeclaredSizesMatch ==
    (Repaired /\ clusterOffsets # <<>>)
        => /\ VintNumber(getBlob(PartsOf("cuesSize")))
                  = Len(getBlob(PartsOf("cuesPayload")))
           /\ Len(NewCuePoints) = Len(clusterOffsets)
           /\ \A i \in 1..Len(NewCuePoints) :
                 LET cp == NewCuePoints[i]
                 IN  /\ Len(CueTimeOf(cp)) = 8
                     /\ CueTrackOf(cp) = 1
                     /\ CuePositionOf(cp) # <<>>
                     /\ cp[12] - 128 = Len(cp) - 12

\* C29: a step of the onstop handler of a recorder that was stopped before
\* the present recording was started leaves the present session alone: it
\* does not set isRecording, clear the timer, stop the streams or publish
\* an audio blob.
C29_StopHandlerOwnSession ==
    [][(late \in InFlight /\ late' # late)
           => UNCHANGED <<isRecording, timerInterval, streams, audioBlob>>]_vars

\* C30: when the request of generateNotesFromAudio comes back while the
\* HISTORY or the IDLE view is shown, appState is left as it is: the view
\* the user went to is not replaced by SUCCESS or ERROR.
C30_StaleCompletionIgnored ==
    [][(/\ generation.at = "generating"
        /\ generation' # generation
        /\ appState \in {"HISTORY", "IDLE"})
           => appState' = appState]_vars

=============================================================================
